---- MODULE Spec2Model ----
(***************************************************************************)
(* The support agent of src/agent.py driven by the harness of              *)
(* src/testing.py: a two-node graph (agent, tools) over an accumulating    *)
(* message list, run with recursion_limit = 10.                            *)
(*                                                                         *)
(* One run of agent_app.ainvoke is modelled.  A graph superstep is the     *)
(* execution of one node (agent or tools); the agent superstep is split    *)
(* into issuing the model call and receiving its answer, the tools         *)
(* superstep into the start and finish of every tool call and the commit   *)
(* of the batch of results.                                                *)
(***************************************************************************)
EXTENDS Integers, Sequences, FiniteSets, TLC

VARIABLES
    pc,          \* position: "agent", "model_call", "tools", "done", "loop_limit", "model_unavailable",
                 \* and of the harness after a run: "reported", "finished"
    messages,    \* AgentState["messages"], the transcript
    step,        \* graph supersteps executed so far in this run
    modelCalls,  \* llm_with_tools.invoke calls issued so far
    toolExecs,   \* tool invocations dispatched by the tools node so far
    running,     \* indices (into the last assistant message's tool_calls) of tool calls in progress
    outputs,     \* index -> tool message, for the tool calls of the current batch that have returned
    env,         \* the process environment: TELEGRAM_BOT_TOKEN and TELEGRAM_CHAT_ID
    netCalls,    \* requests.post calls made so far in this run
    lastPost,    \* transport outcome of the most recent requests.post ("none" before the first)
    case,        \* number of the fixture case the harness loop is at
    final_state, \* what agent_app.ainvoke returned to the harness for this case (NoState before)
    printed,     \* the cases whose result block was printed, in print order
    report       \* the ACTION TAKEN and RESPONSE lines printed for this case (NoReport before)

vars == <<pc, messages, step, modelCalls, toolExecs, running, outputs, env, netCalls, lastPost,
          case, final_state, printed, report>>

\* what the harness loop holds besides the run
harnessVars == <<case, final_state, printed, report>>

----------------------------------------------------------------------------
(* Bounds of the model and constants of the program *)

\* most tool calls the model stub puts in one assistant message
MaxToolCalls == 2

\* config={"recursion_limit": 10}
recursion_limit == 10

\* the harness seeds every run with [system_instruction, user_msg]
InitialLength == 2

\* number of cases in test_data.json
NumCases == 2

----------------------------------------------------------------------------
(* Data *)

\* tools = [process_refund, contact_delivery_partner, escalate_to_support_admin]
tools == {"process_refund", "contact_delivery_partner", "escalate_to_support_admin"}

\* names the model puts in a tool call: llm.bind_tools(tools) declares these to it
ToolNames == tools

\* os.getenv gives None (unset), "" (set and empty) or a non-empty string
EnvValues == {"unset", "empty", "set"}

\* what requests.post can do: return a 2xx response, return a non-2xx response, or raise
Transports == {"ok", "http_error", "network_error"}

NoCalls == << >>

\* argument values as the model sends them: a JSON string or a JSON integer
StrVal(s) == [t |-> "str", v |-> s]

IntVal(n) == [t |-> "int", v |-> n]

\* the parameters of a tool, from its signature
ParamNames(name) ==
    CASE name = "process_refund" -> {"item_name", "reason", "refund_amount_percentage"}
      [] name = "contact_delivery_partner" -> {"message"}
      [] name = "escalate_to_support_admin" -> {"issue_summary", "urgency"}

\* the annotated type of a parameter
ParamType(name, p) == IF p = "refund_amount_percentage" THEN "int" ELSE "str"

\* the defaults of a tool's signature: refund_amount_percentage: int = 100
Defaults(name) ==
    IF name = "process_refund" THEN [refund_amount_percentage |-> IntVal(100)] ELSE << >>

\* the parameters without a default
Required(name) == ParamNames(name) \ DOMAIN Defaults(name)

\* an argument check that looks only for the required parameters
ValidArgumentsUntyped(name, args) == Required(name) \subseteq DOMAIN args

\* the check of a tool call's arguments against the schema made from the signature: every
\* required parameter is there and every argument has the annotated type
ValidArguments(name, args) ==
    /\ Required(name) \subseteq DOMAIN args
    /\ \A p \in DOMAIN args \cap ParamNames(name) : args[p].t = ParamType(name, p)

\* the arguments the tool body is called with: those given, defaults for the rest
BindArguments(name, args) ==
    [p \in ParamNames(name) |-> IF p \in DOMAIN args THEN args[p] ELSE Defaults(name)[p]]

\* the arguments the model stub gives a tool in a run of the harness
StandardArgs(name) ==
    CASE name = "process_refund" ->
            [item_name |-> StrVal("Chicken Pizza"), reason |-> StrVal("Burnt"),
             refund_amount_percentage |-> IntVal(100)]
      [] name = "contact_delivery_partner" -> [message |-> StrVal("Where are you?")]
      [] name = "escalate_to_support_admin" ->
            [issue_summary |-> StrVal("App crash"), urgency |-> StrVal("high")]

\* Every message carries the case during whose loop iteration it was created (run) and, for
\* a tool message, the argument values its text embeds (embeds) and its status.

SystemMessage == [role |-> "system", tool_calls |-> NoCalls, tool_call_id |-> 0, name |-> "", content |-> "instruction", embeds |-> << >>, status |-> "", run |-> case]

\* HumanMessage(content=format_context_prompt(case)): the prompt of the current case
HumanMessage == [role |-> "human", tool_calls |-> NoCalls, tool_call_id |-> 0, name |-> "", content |-> "prompt", embeds |-> << >>, status |-> "", run |-> case]

AIMessage(calls) == [role |-> "ai", tool_calls |-> calls, tool_call_id |-> 0, name |-> "", content |-> IF calls = NoCalls THEN "answer" ELSE "", embeds |-> << >>, status |-> "", run |-> case]

ToolMessage(call, text) == [role |-> "tool", tool_calls |-> NoCalls, tool_call_id |-> call.id, name |-> call.name, content |-> text, embeds |-> << >>, status |-> "success", run |-> case]

\* no final state: ainvoke has not returned
NoState == << >>

\* nothing printed yet for the case
NoReport == [action_taken |-> << >>, response |-> "(nothing printed)"]

----------------------------------------------------------------------------
(* The tools *)

\* Python truthiness of an os.getenv result
Truthy(v) == v = "set"

\* a refund tool that always reports a full refund
process_refund_full_amount(item_name, reason, refund_amount_percentage) ==
    [content |-> "SUCCESS: Refund processed", embeds |-> <<item_name.v, reason.v, 100>>]

\* process_refund: the f-string with its three arguments, no external call
process_refund(item_name, reason, refund_amount_percentage) ==
    [content |-> "SUCCESS: Refund processed",
     embeds |-> <<item_name.v, reason.v, refund_amount_percentage.v>>]

\* contact_delivery_partner: the f-string with its argument, no external call
contact_delivery_partner(message) ==
    [content |-> "RIDER_ALERT: Message sent to rider", embeds |-> <<message.v>>]

\* escalate_to_support_admin with "if token or chat_id"
escalate_either_secret(token, chat_id, transport) ==
    IF Truthy(token) \/ Truthy(chat_id)
    THEN IF transport = "network_error"
         THEN [content |-> "ESCALATION FAILED", posts |-> 1]
         ELSE [content |-> "ESCALATED: Admin has been notified via Telegram channel.", posts |-> 1]
    ELSE [content |-> "ESCALATED: Admin notified (Simulation Mode - No Token Found).", posts |-> 0]

\* escalate_to_support_admin: the text returned and the number of requests.post calls made
escalate_to_support_admin(token, chat_id, transport) ==
    IF Truthy(token) /\ Truthy(chat_id)
    THEN IF transport = "network_error"
         THEN [content |-> "ESCALATION FAILED", posts |-> 1]
         ELSE [content |-> "ESCALATED: Admin has been notified via Telegram channel.", posts |-> 1]
    ELSE [content |-> "ESCALATED: Admin notified (Simulation Mode - No Token Found).", posts |-> 0]

\* the tool body called with bound arguments: text, embedded values, posts made
RunBody(name, b, transport) ==
    CASE name = "process_refund" ->
            LET r == process_refund(b.item_name, b.reason, b.refund_amount_percentage)
            IN  [content |-> r.content, embeds |-> r.embeds, posts |-> 0, status |-> "success"]
      [] name = "contact_delivery_partner" ->
            LET r == contact_delivery_partner(b.message)
            IN  [content |-> r.content, embeds |-> r.embeds, posts |-> 0, status |-> "success"]
      [] name = "escalate_to_support_admin" ->
            LET r == escalate_to_support_admin(env.TELEGRAM_BOT_TOKEN, env.TELEGRAM_CHAT_ID, transport)
            IN  [content |-> r.content, embeds |-> << >>, posts |-> r.posts, status |-> "success"]

\* a tools node that does not check the types of the arguments
RunOneUntyped(call, transport) ==
    IF call.name \notin tools
    THEN [content |-> "Error: not a valid tool", embeds |-> << >>, posts |-> 0, status |-> "error"]
    ELSE IF ~ValidArgumentsUntyped(call.name, call.args)
    THEN [content |-> "Error: invalid arguments", embeds |-> << >>, posts |-> 0, status |-> "error"]
    ELSE RunBody(call.name, BindArguments(call.name, call.args), transport)

\* ToolNode's handling of one tool call: an error message for a name that is no tool or for
\* arguments the schema rejects, else the outcome of the tool body
RunOne(call, transport) ==
    IF call.name \notin tools
    THEN [content |-> "Error: not a valid tool", embeds |-> << >>, posts |-> 0, status |-> "error"]
    ELSE IF ~ValidArguments(call.name, call.args)
    THEN [content |-> "Error: invalid arguments", embeds |-> << >>, posts |-> 0, status |-> "error"]
    ELSE RunBody(call.name, BindArguments(call.name, call.args), transport)

----------------------------------------------------------------------------
(* Helpers over the transcript *)

Last(s) == s[Len(s)]

RECURSIVE SumCalls(_, _)
\* number of tool calls carried by the first n messages of s
SumCalls(s, n) == IF n = 0 THEN 0 ELSE Len(s[n].tool_calls) + SumCalls(s, n - 1)

\* the tool calls the tools node works on: those of the last message
CurrentCalls == Last(messages).tool_calls

\* the answers the model stub can give to the transcript s: a plain answer or one tool call
\* at any turn, up to MaxToolCalls tool calls at once in its first answer; ids are fresh
Responses(s) ==
    LET base == SumCalls(s, Len(s))
        room == IF Len(s) = InitialLength THEN MaxToolCalls ELSE 1
    IN  { AIMessage([i \in 1..Len(names) |->
                       [id |-> base + i, name |-> names[i], args |-> StandardArgs(names[i])]]) :
            names \in UNION {[1..k -> ToolNames] : k \in 0..room} }

----------------------------------------------------------------------------
(* The graph *)

\* a state update that replaces the channel's value
Overwrite(old, new) == new

\* Annotated[Sequence[BaseMessage], operator.add]: a node's messages are added to the transcript
Reduce(old, new) == old \o new

\* a router that sends a tool-requesting message back to the agent node
should_continue_skip_tools(s) == IF Last(s).tool_calls # NoCalls THEN "agent" ELSE "done"

\* a router that always ends the run
should_continue_always_end(s) == "done"

\* a router that looks at the message before the one just appended
should_continue_previous(s) == IF s[Len(s) - 1].tool_calls # NoCalls THEN "tools" ELSE "done"

\* should_continue: route on the last message
should_continue(s) == IF Last(s).tool_calls # NoCalls THEN "tools" ELSE "done"

\* a superstep budget that admits one superstep more
WithinLimitOffByOne == step <= recursion_limit

\* the run has supersteps left: recursion_limit supersteps are allowed
WithinLimit == step < recursion_limit

\* ainvoke handing back only the update of the last node
ReturnedLastUpdate(s) == <<Last(s)>>

\* the messages of the final state agent_app.ainvoke returns: the whole channel value
Returned(s) == s

RECURSIVE ToolCallNamesFirstOnly(_, _)
\* a collector that takes only the first tool call of each message
ToolCallNamesFirstOnly(history, n) ==
    IF n = 0 THEN << >>
    ELSE ToolCallNamesFirstOnly(history, n - 1)
         \o (IF history[n].tool_calls # NoCalls THEN <<history[n].tool_calls[1].name>> ELSE << >>)

RECURSIVE ToolCallNames(_, _)
\* the harness's tool_calls list: the name of every tool call of the first n messages, in order
ToolCallNames(history, n) ==
    IF n = 0 THEN << >>
    ELSE ToolCallNames(history, n - 1)
         \o [j \in 1..Len(history[n].tool_calls) |-> history[n].tool_calls[j].name]

\* the ACTION TAKEN line
ActionTaken(names) == IF names # << >> THEN names ELSE <<"None (Direct Reply)">>

\* every tool call of the batch has returned
BatchReturned == DOMAIN outputs = 1..Len(CurrentCalls)

\* the tools node answering only the first tool call of the batch
BatchMessagesFirstOnly == <<outputs[1]>>

\* the tool messages of the batch in the reverse of the order of the tool calls
BatchMessagesReversed == [i \in 1..Len(CurrentCalls) |-> outputs[Len(CurrentCalls) + 1 - i]]

\* the tool messages of the batch, in the order of the tool calls
BatchMessages == [i \in 1..Len(CurrentCalls) |-> outputs[i]]

Init ==
    /\ case = 1
    /\ pc = "agent"
    /\ messages = <<SystemMessage, HumanMessage>>
    /\ step = 0
    /\ modelCalls = 0
    /\ toolExecs = 0
    /\ running = {}
    /\ outputs = << >>
    /\ env \in [{"TELEGRAM_BOT_TOKEN", "TELEGRAM_CHAT_ID"} -> EnvValues]
    /\ netCalls = 0
    /\ lastPost = "none"
    /\ final_state = NoState
    /\ printed = << >>
    /\ report = NoReport

\* agent_node starts: the model is called with the whole transcript
AgentStart ==
    /\ pc = "agent"
    /\ WithinLimit
    /\ pc' = "model_call"
    /\ modelCalls' = modelCalls + 1
    /\ UNCHANGED <<messages, step, toolExecs, running, outputs, env, netCalls, lastPost, harnessVars>>

\* the model answers: agent_node returns {"messages": [response]}, operator.add appends it,
\* and should_continue routes
ModelReturn ==
    /\ pc = "model_call"
    /\ \E response \in Responses(messages) :
          /\ messages' = Reduce(messages, <<response>>)
          /\ pc' = should_continue(messages')
    /\ step' = step + 1
    /\ final_state' = IF pc' = "done" THEN Returned(messages') ELSE final_state
    /\ UNCHANGED <<modelCalls, toolExecs, running, outputs, env, netCalls, lastPost, case, printed, report>>

\* an agent node that swallows the failure of the model call and is run again
ModelFailRetried ==
    /\ pc = "model_call"
    /\ pc' = "agent"
    /\ UNCHANGED <<messages, step, modelCalls, toolExecs, running, outputs, env, netCalls, lastPost, harnessVars>>

\* the model call raises: the exception leaves agent_node and ainvoke
ModelFail ==
    /\ pc = "model_call"
    /\ pc' = "model_unavailable"
    /\ UNCHANGED <<messages, step, modelCalls, toolExecs, running, outputs, env, netCalls, lastPost, harnessVars>>

\* the tools node starts one of the batch's tool calls
ToolStart ==
    /\ pc = "tools"
    /\ WithinLimit
    /\ \E i \in 1..Len(CurrentCalls) :
          /\ i \notin running
          /\ i \notin DOMAIN outputs
          /\ running' = running \cup {i}
    /\ toolExecs' = toolExecs + 1
    /\ UNCHANGED <<pc, messages, step, modelCalls, outputs, env, netCalls, lastPost, harnessVars>>

\* a started tool call returns; its outcome becomes a tool message
ToolFinish ==
    /\ pc = "tools"
    /\ \E i \in running :
          \E transport \in Transports :
             LET call == CurrentCalls[i]
                 r == RunOne(call, transport)
             IN  /\ (r.posts = 0 => transport = "ok")
                 /\ outputs' = (i :> [ToolMessage(call, r.content) EXCEPT
                                        !.embeds = r.embeds, !.status = r.status]) @@ outputs
                 /\ running' = running \ {i}
                 /\ netCalls' = netCalls + r.posts
                 /\ lastPost' = IF r.posts > 0 THEN transport ELSE lastPost
    /\ UNCHANGED <<pc, messages, step, modelCalls, toolExecs, env, harnessVars>>

\* a tools node that returns without awaiting the tool calls it started
ToolsCommitNotAwaited ==
    /\ pc = "tools"
    /\ running \cup DOMAIN outputs = 1..Len(CurrentCalls)
    /\ messages' = Reduce(messages, [i \in 1..Len(CurrentCalls) |-> ToolMessage(CurrentCalls[i], "")])
    /\ outputs' = << >>
    /\ step' = step + 1
    /\ pc' = "agent"
    /\ UNCHANGED <<modelCalls, toolExecs, running, env, netCalls, lastPost, harnessVars>>

\* the tools node returns its tool messages, operator.add appends them, the edge leads to agent
ToolsCommit ==
    /\ pc = "tools"
    /\ BatchReturned
    /\ messages' = Reduce(messages, BatchMessages)
    /\ outputs' = << >>
    /\ step' = step + 1
    /\ pc' = "agent"
    /\ UNCHANGED <<modelCalls, toolExecs, running, env, netCalls, lastPost, harnessVars>>

\* a limit check that raises one superstep later than the scheduler stops
OutOfStepsLate ==
    /\ pc \in {"agent", "tools"}
    /\ step > recursion_limit
    /\ pc' = "loop_limit"
    /\ UNCHANGED <<messages, step, modelCalls, toolExecs, running, outputs, env, netCalls, lastPost, harnessVars>>

\* a limit check that ends the run normally and returns the transcript so far
OutOfStepsSwallowed ==
    /\ pc \in {"agent", "tools"}
    /\ ~WithinLimit
    /\ pc' = "done"
    /\ final_state' = Returned(messages)
    /\ UNCHANGED <<messages, step, modelCalls, toolExecs, running, outputs, env, netCalls, lastPost,
                   case, printed, report>>

\* another superstep is due and the recursion limit is reached: GraphRecursionError
OutOfSteps ==
    /\ pc \in {"agent", "tools"}
    /\ ~WithinLimit
    /\ pc' = "loop_limit"
    /\ UNCHANGED <<messages, step, modelCalls, toolExecs, running, outputs, env, netCalls, lastPost, harnessVars>>

\* the harness analyses the final state and prints the result block of the case
Report ==
    /\ pc = "done"
    /\ pc' = "reported"
    /\ report' = [action_taken |-> ActionTaken(ToolCallNames(final_state, Len(final_state))),
                  response |-> Last(final_state).content]
    /\ printed' = Append(printed, case)
    /\ UNCHANGED <<messages, step, modelCalls, toolExecs, running, outputs, env, netCalls, lastPost,
                   case, final_state>>

\* a harness loop that keeps one messages list across its iterations
StartCaseSharedMessages ==
    /\ pc = "reported"
    /\ case < NumCases
    /\ case' = case + 1
    /\ messages' = messages \o <<SystemMessage, HumanMessage>>'
    /\ pc' = "agent"
    /\ step' = 0
    /\ modelCalls' = 0
    /\ toolExecs' = 0
    /\ netCalls' = 0
    /\ lastPost' = "none"
    /\ final_state' = NoState
    /\ report' = NoReport
    /\ UNCHANGED <<running, outputs, env, printed>>

\* a harness loop that catches the failure of a run and goes on with the next case
StartCaseAfterFailure ==
    /\ pc \in {"reported", "loop_limit", "model_unavailable"}
    /\ case < NumCases
    /\ case' = case + 1
    /\ messages' = <<SystemMessage, HumanMessage>>'
    /\ pc' = "agent"
    /\ step' = 0
    /\ modelCalls' = 0
    /\ toolExecs' = 0
    /\ netCalls' = 0
    /\ lastPost' = "none"
    /\ final_state' = NoState
    /\ report' = NoReport
    /\ UNCHANGED <<running, outputs, env, printed>>

\* the next loop iteration: a fresh messages list for the next case, and a new run
StartCase ==
    /\ pc = "reported"
    /\ case < NumCases
    /\ case' = case + 1
    /\ messages' = <<SystemMessage, HumanMessage>>'
    /\ pc' = "agent"
    /\ step' = 0
    /\ modelCalls' = 0
    /\ toolExecs' = 0
    /\ netCalls' = 0
    /\ lastPost' = "none"
    /\ final_state' = NoState
    /\ report' = NoReport
    /\ UNCHANGED <<running, outputs, env, printed>>

\* the loop is over: run_tests returns
Finish ==
    /\ pc = "reported"
    /\ case = NumCases
    /\ pc' = "finished"
    /\ UNCHANGED <<messages, step, modelCalls, toolExecs, running, outputs, env, netCalls, lastPost,
                   harnessVars>>

\* the steps of one run of agent_app.ainvoke
RunNext ==
    \/ AgentStart
    \/ ModelReturn
    \/ ModelFail
    \/ ToolStart
    \/ ToolFinish
    \/ ToolsCommit
    \/ OutOfSteps

Next ==
    \/ AgentStart
    \/ ModelReturn
    \/ ModelFail
    \/ ToolStart
    \/ ToolFinish
    \/ ToolsCommit
    \/ OutOfSteps
    \/ Report
    \/ StartCase
    \/ Finish

Spec == Init /\ [][Next]_vars

----------------------------------------------------------------------------
(* One tool turn on any single tool call *)

\* values a model can send for a string parameter: two texts, or an integer
StringArguments == {StrVal("Chicken Pizza"), StrVal("Burnt"), IntVal(7)}

\* values a model can send for refund_amount_percentage: integers in and out of 0..100, or a text
PercentageArguments == {IntVal(-10), IntVal(0), IntVal(50), IntVal(100), IntVal(150), StrVal("half")}

\* the argument mappings for a tool: any subset of its parameters, each with one of the values
ArgumentSets(name) ==
    {f \in UNION {[D -> StringArguments \cup PercentageArguments] : D \in SUBSET ParamNames(name)} :
        \A p \in DOMAIN f :
           f[p] \in (IF ParamType(name, p) = "int" THEN PercentageArguments ELSE StringArguments)}

\* the single tool calls a model can answer with: a bound tool with any arguments, or a
\* name that is no tool
TestCalls ==
    UNION {{[id |-> 1, name |-> m, args |-> a] : a \in ArgumentSets(m)} : m \in tools}
    \cup {[id |-> 1, name |-> "unknown_tool", args |-> << >>]}

\* the first model call of the first case has returned one tool call
InitTool ==
    /\ case = 1
    /\ pc = "tools"
    /\ \E call \in TestCalls : messages = <<SystemMessage, HumanMessage, AIMessage(<<call>>)>>
    /\ step = 1
    /\ modelCalls = 1
    /\ toolExecs = 0
    /\ running = {}
    /\ outputs = << >>
    /\ env \in [{"TELEGRAM_BOT_TOKEN", "TELEGRAM_CHAT_ID"} -> EnvValues]
    /\ netCalls = 0
    /\ lastPost = "none"
    /\ final_state = NoState
    /\ printed = << >>
    /\ report = NoReport

\* the steps of the tools node
NextTool ==
    \/ ToolStart
    \/ ToolFinish
    \/ ToolsCommit

ToolSpec == InitTool /\ [][NextTool]_vars

\* one run in which every model call and every tool call returns and the scheduler keeps
\* stepping
FairSpec == Init /\ [][RunNext]_vars /\ WF_vars(RunNext)

----------------------------------------------------------------------------
(* Properties *)

Terminal == pc \in {"done", "loop_limit", "model_unavailable"}

\* a run is under way
Running == pc \in {"agent", "model_call", "tools"}

\* the run of the current case has ended in Done
RunDone == pc \in {"done", "reported", "finished"}

\* positions of the assistant messages of the transcript s
AIIndices(s) == {i \in 1..Len(s) : s[i].role = "ai"}

\* positions of the tool messages of s that reference the tool call id
ResultsOf(s, id) == {r \in 1..Len(s) : s[r].role = "tool" /\ s[r].tool_call_id = id}

\* position of the last assistant message of s
LastAI(s) == CHOOSE a \in AIIndices(s) : \A b \in AIIndices(s) : b <= a

\* the tool messages of the escalation tool, committed or returned in the current batch
EscalationResults ==
    {messages[r] : r \in {x \in 1..Len(messages) :
                            messages[x].role = "tool" /\ messages[x].name = "escalate_to_support_admin"}}
    \cup {outputs[i] : i \in {x \in DOMAIN outputs : outputs[x].name = "escalate_to_support_admin"}}

\* number of escalation calls that have returned
EscalationsReturned ==
    Cardinality({r \in 1..Len(messages) :
                    messages[r].role = "tool" /\ messages[r].name = "escalate_to_support_admin"})
    + Cardinality({i \in DOMAIN outputs : outputs[i].name = "escalate_to_support_admin"})

\* an environment variable that is set at all
Present(v) == v # "unset"

\* C1: in a run that ended in Done, every tool call of every assistant message has exactly
\* one tool message referencing its id, later in the transcript, and every tool message
\* references the id of a tool call of an earlier assistant message.
C1_ReferentialIntegrity ==
    pc = "done" =>
        /\ \A a \in 1..Len(messages) : \A j \in 1..Len(messages[a].tool_calls) :
              LET rs == ResultsOf(messages, messages[a].tool_calls[j].id)
              IN  Cardinality(rs) = 1 /\ \A r \in rs : r > a
        /\ \A r \in 1..Len(messages) :
              messages[r].role = "tool" =>
                 \E a \in 1..(r - 1) :
                    /\ messages[a].role = "ai"
                    /\ \E j \in 1..Len(messages[a].tool_calls) :
                          messages[a].tool_calls[j].id = messages[r].tool_call_id

\* a finished run with a two-call batch and two more model calls
C1_Witness ==
    /\ pc = "done"
    /\ modelCalls >= 3
    /\ \E a \in 1..Len(messages) : Len(messages[a].tool_calls) = 2

\* C2: while a model call is outstanding, every tool call of the most recent assistant
\* message is answered: its tool messages are all in the transcript, after it.
C2_TurnCompletion ==
    (pc = "model_call" /\ AIIndices(messages) # {}) =>
        LET a == LastAI(messages)
            calls == messages[a].tool_calls
        IN  /\ Len(messages) = a + Len(calls)
            /\ \A j \in 1..Len(calls) :
                  \E r \in (a + 1)..Len(messages) :
                     messages[r].role = "tool" /\ messages[r].tool_call_id = calls[j].id

\* the second model call is outstanding after a batch of two tool calls
C2_Witness ==
    /\ pc = "model_call"
    /\ modelCalls = 2
    /\ Len(messages[InitialLength + 1].tool_calls) = 2

\* C3 as stated: the run that fails at the loop limit has made recursion_limit model calls.
C3_Original == pc = "loop_limit" => modelCalls = recursion_limit

\* C3 (amended): the limit counts supersteps, agent and tools alike.  The run fails at the
\* limit after exactly recursion_limit supersteps, half of them model calls (5 of 10), each
\* answered with tool calls, and no run makes a 6th model call.
C3_LoopLimit ==
    /\ modelCalls <= (recursion_limit + 1) \div 2
    /\ modelCalls <= 5
    /\ pc = "loop_limit" =>
          /\ step = recursion_limit
          /\ modelCalls = 5
          /\ Cardinality(AIIndices(messages)) = 5
          /\ \A a \in AIIndices(messages) : messages[a].tool_calls # NoCalls
          /\ Len(messages) = InitialLength + 5 + SumCalls(messages, Len(messages))

\* a run of a model that always requests a tool has failed at the limit
C3_Witness == pc = "loop_limit" /\ modelCalls = 5

\* C4: every run reaches Done, LoopLimitExceeded or ModelUnavailable, and the number of
\* supersteps never exceeds the limit.
C4_Terminates == (Running ~> Terminal) /\ [](step <= recursion_limit)

\* the run of a model that requests tools forever has been stopped
C4_Witness == pc = "loop_limit" /\ step = recursion_limit /\ toolExecs >= 5

\* C5: a run that ends in Done after n model calls that requested k tool calls in total has
\* a transcript of InitialLength + n + k messages and made k tool executions; a plain first
\* answer ends the run at once with one model call, no tool execution and one more message;
\* one tool call then a plain answer gives assistant-with-call, tool message, assistant.
C5_Counts ==
    LET k == SumCalls(messages, Len(messages))
        n == modelCalls
        L == Len(messages)
    IN  /\ pc = "done" =>
              /\ L = InitialLength + n + k
              /\ toolExecs = k
              /\ Cardinality(AIIndices(messages)) = n
        /\ (L > InitialLength /\ messages[InitialLength + 1].tool_calls = NoCalls) =>
              /\ RunDone
              /\ n = 1
              /\ toolExecs = 0
              /\ L = InitialLength + 1
        /\ (pc = "done" /\ n = 2 /\ k = 1) =>
              /\ L = InitialLength + 3
              /\ messages[L - 2].role = "ai" /\ Len(messages[L - 2].tool_calls) = 1
              /\ messages[L - 1].role = "tool"
              /\ messages[L].role = "ai" /\ messages[L].tool_calls = NoCalls

\* a run of one tool call followed by a plain answer has ended
C5_Witness ==
    /\ pc = "done"
    /\ modelCalls = 2
    /\ SumCalls(messages, Len(messages)) = 1
    /\ toolExecs = 1

\* C6 as stated: at most one tool execution is in progress at any time, and none while a
\* model call is outstanding.
C6_Original == Cardinality(running) <= 1 /\ (pc = "model_call" => running = {})

\* C6 (amended): tool executions are in progress only during the tools turn of the most
\* recent assistant message, never during a model call or after the run has ended; the
\* executions of one batch may overlap each other.
C6_OneBatch ==
    /\ (running # {} \/ DOMAIN outputs # {}) => pc = "tools"
    /\ pc = "tools" =>
          /\ running \cup DOMAIN outputs \subseteq 1..Len(CurrentCalls)
          /\ running \cap DOMAIN outputs = {}

\* both tool calls of a batch are in progress at once
C6_Witness == pc = "tools" /\ Cardinality(running) = 2

\* C7: the tool messages of a turn follow their assistant message immediately, in the order
\* of its tool calls, and are followed by the next assistant message.
C7_ResultOrder ==
    \A a \in AIIndices(messages) :
       LET calls == messages[a].tool_calls
           k == Len(calls)
       IN  k >= 1 =>
              \/ a = Len(messages)
              \/ /\ Len(messages) >= a + k
                 /\ \A j \in 1..k :
                       /\ messages[a + j].role = "tool"
                       /\ messages[a + j].tool_call_id = calls[j].id
                       /\ messages[a + j].name = calls[j].name
                 /\ Len(messages) > a + k => messages[a + k + 1].role = "ai"

\* a batch of two different tools has been answered and the next assistant message appended
C7_Witness ==
    /\ Len(messages) >= InitialLength + 4
    /\ Len(messages[InitialLength + 1].tool_calls) = 2
    /\ messages[InitialLength + 1].tool_calls[1].name # messages[InitialLength + 1].tool_calls[2].name
    /\ messages[InitialLength + 4].role = "ai"

\* C8: every step of a run leaves the transcript it found as a prefix of the transcript it
\* leaves.
C8_AppendOnly ==
    [][case' = case =>
          /\ Len(messages') >= Len(messages)
          /\ SubSeq(messages', 1, Len(messages)) = messages]_vars

\* a finished run of several turns still starts with the caller's two messages
C8_Witness ==
    /\ pc = "done"
    /\ Len(messages) >= InitialLength + 5
    /\ messages[1] = SystemMessage
    /\ messages[2] = HumanMessage

\* C9: with a secret absent the escalation tool returns the simulation text and no network
\* call is made; network calls happen only with both secrets present, at most one per
\* invocation.
C9_SimulationMode ==
    /\ (~Present(env.TELEGRAM_BOT_TOKEN) \/ ~Present(env.TELEGRAM_CHAT_ID)) =>
          /\ netCalls = 0
          /\ \A m \in EscalationResults :
                m.content = "ESCALATED: Admin notified (Simulation Mode - No Token Found)."
    /\ netCalls > 0 => (Present(env.TELEGRAM_BOT_TOKEN) /\ Present(env.TELEGRAM_CHAT_ID))
    /\ netCalls <= EscalationsReturned

\* the escalation tool has run with the token set and the chat id absent
C9_Witness ==
    /\ env.TELEGRAM_BOT_TOKEN = "set"
    /\ env.TELEGRAM_CHAT_ID = "unset"
    /\ netCalls = 0
    /\ \E r \in 1..Len(messages) :
          /\ messages[r].name = "escalate_to_support_admin"
          /\ messages[r].content = "ESCALATED: Admin notified (Simulation Mode - No Token Found)."

\* C10: an escalation whose notification call fails, by a network error or by a non-success
\* response status, returns the failure text.
C10_TransportFailure ==
    [][\A i \in DOMAIN outputs' \ DOMAIN outputs :
          (netCalls' > netCalls /\ lastPost' \in {"network_error", "http_error"}) =>
             outputs'[i].content = "ESCALATION FAILED"]_vars

\* C11: a model call that fails ends the run in model_unavailable: nothing is returned or
\* printed for the case, and from then on no model call, tool execution or append happens.
C11_ModelUnavailable ==
    [][/\ (pc = "model_call" /\ pc' # "model_call" /\ messages' = messages) =>
             pc' = "model_unavailable"
       /\ pc' = "model_unavailable" =>
             /\ final_state' = NoState
             /\ report' = NoReport
             /\ printed' = printed
             /\ modelCalls' = modelCalls
             /\ toolExecs' = toolExecs
       /\ pc = "model_unavailable" =>
             /\ pc' = "model_unavailable"
             /\ messages' = messages
             /\ running' = running]_vars

\* the second model call of a run has failed, after a tool turn
C11_Witness ==
    /\ pc = "model_unavailable"
    /\ modelCalls = 2
    /\ toolExecs >= 1
    /\ final_state = NoState

\* C12 as stated: at the loop limit the caller gets the failure together with the partial
\* transcript.
C12_Original == pc = "loop_limit" => final_state = messages

\* C12 (amended): at the loop limit the run fails explicitly, it never ends as a normal final
\* state, and the caller gets no state at all: nothing is returned or printed for the case.
C12_LoopLimitSurfaced ==
    [][/\ (pc \in {"agent", "tools"} /\ step >= recursion_limit) =>
             /\ pc' = "loop_limit"
             /\ final_state' = NoState
             /\ report' = NoReport
             /\ printed' = printed
             /\ messages' = messages
       /\ pc = "loop_limit" => pc' = "loop_limit"]_vars

\* a run has failed at the limit with ten messages appended and nothing returned
C12_Witness ==
    /\ pc = "loop_limit"
    /\ Len(messages) >= InitialLength + recursion_limit
    /\ final_state = NoState
    /\ report = NoReport

\* the tool call of the first assistant message, and the tool message that answers it
FirstCall == messages[InitialLength + 1].tool_calls[1]

FirstResultReturned == 1 \in DOMAIN outputs \/ Len(messages) > InitialLength + 1

FirstResult == IF 1 \in DOMAIN outputs THEN outputs[1] ELSE messages[InitialLength + 2]

UnknownTool(call) == call.name \notin {"process_refund", "contact_delivery_partner", "escalate_to_support_admin"}

MissingRequired(call) ==
    \/ call.name = "process_refund" /\ ~({"item_name", "reason"} \subseteq DOMAIN call.args)
    \/ call.name = "contact_delivery_partner" /\ "message" \notin DOMAIN call.args
    \/ call.name = "escalate_to_support_admin" /\ ~({"issue_summary", "urgency"} \subseteq DOMAIN call.args)

WrongType(call) ==
    \E p \in DOMAIN call.args :
       call.args[p].t # (IF p = "refund_amount_percentage" THEN "int" ELSE "str")

OutOfRange(call) ==
    /\ call.name = "process_refund"
    /\ "refund_amount_percentage" \in DOMAIN call.args
    /\ call.args.refund_amount_percentage.t = "int"
    /\ (call.args.refund_amount_percentage.v < 0 \/ call.args.refund_amount_percentage.v > 100)

SuccessTexts ==
    {"SUCCESS: Refund processed", "RIDER_ALERT: Message sent to rider",
     "ESCALATED: Admin has been notified via Telegram channel.",
     "ESCALATED: Admin notified (Simulation Mode - No Token Found)."}

\* C13 as stated: a tool call with an unknown name, a missing required parameter, an argument
\* of the wrong type or a refund percentage outside 0..100 yields an error and no success
\* text, and the tool body does not run.
C13_Original ==
    (/\ FirstResultReturned
     /\ UnknownTool(FirstCall) \/ MissingRequired(FirstCall) \/ WrongType(FirstCall) \/ OutOfRange(FirstCall)) =>
        /\ FirstResult.status = "error"
        /\ FirstResult.content \notin SuccessTexts

\* C13, as the code behaves: a tool call with an unknown name, a missing required parameter or an
\* argument of the wrong type is answered with an error tool message, which is appended like
\* any result while the run goes on; the body does not run (no success text, no network
\* call).  A refund percentage outside 0..100 is not rejected: the refund succeeds with it.
C13_ToolErrors ==
    FirstResultReturned =>
        /\ (UnknownTool(FirstCall) \/ MissingRequired(FirstCall) \/ WrongType(FirstCall)) =>
              /\ FirstResult.status = "error"
              /\ FirstResult.content \notin SuccessTexts
              /\ FirstResult.embeds = << >>
              /\ FirstResult.tool_call_id = FirstCall.id
              /\ netCalls = 0
              /\ pc \in {"tools", "agent"}
        /\ (~MissingRequired(FirstCall) /\ ~WrongType(FirstCall) /\ OutOfRange(FirstCall)) =>
              /\ FirstResult.status = "success"
              /\ FirstResult.content = "SUCCESS: Refund processed"
              /\ FirstResult.embeds[3] = FirstCall.args.refund_amount_percentage.v

\* the error message for an escalation call with a wrong-typed argument is in the transcript,
\* both secrets being set, and the run is back at the agent node
C13_Witness ==
    /\ pc = "agent"
    /\ Len(messages) = InitialLength + 2
    /\ FirstCall.name = "escalate_to_support_admin"
    /\ WrongType(FirstCall)
    /\ ~MissingRequired(FirstCall)
    /\ env.TELEGRAM_BOT_TOKEN = "set" /\ env.TELEGRAM_CHAT_ID = "set"
    /\ messages[InitialLength + 2].status = "error"

\* C14: process_refund called with any texts and any integer returns the success text with
\* the three values embedded as given, with 100 for an omitted percentage, and the call
\* makes no network call and changes nothing but its own result.
C14_Refund ==
    [][(/\ 1 \in DOMAIN outputs' /\ 1 \notin DOMAIN outputs
        /\ FirstCall.name = "process_refund"
        /\ ~MissingRequired(FirstCall) /\ ~WrongType(FirstCall)) =>
          /\ outputs'[1].status = "success"
          /\ outputs'[1].content = "SUCCESS: Refund processed"
          /\ outputs'[1].embeds =
                <<FirstCall.args.item_name.v, FirstCall.args.reason.v,
                  IF "refund_amount_percentage" \in DOMAIN FirstCall.args
                  THEN FirstCall.args.refund_amount_percentage.v ELSE 100>>
          /\ netCalls' = netCalls
          /\ lastPost' = lastPost
          /\ env' = env
          /\ messages' = messages
          /\ harnessVars' = harnessVars]_vars

\* process_refund has returned for a call that gave no percentage
C14_Witness ==
    /\ 1 \in DOMAIN outputs
    /\ FirstCall.name = "process_refund"
    /\ DOMAIN FirstCall.args = {"item_name", "reason"}
    /\ ~WrongType(FirstCall)
    /\ outputs[1].embeds[3] = 100

HandedBack == pc \in {"done", "reported", "finished"}

\* C15: once a run is done, nothing more is called or appended in that run, and the state
\* handed back to the caller is the transcript as it stood when the run became done.
C15_DoneTerminal ==
    [][HandedBack =>
          /\ final_state = messages
          /\ pc' \in {"done", "reported", "finished", "agent"}
          /\ (pc' = "agent" => case' = case + 1)
          /\ (case' = case =>
                /\ messages' = messages
                /\ modelCalls' = modelCalls
                /\ toolExecs' = toolExecs
                /\ netCalls' = netCalls
                /\ final_state' = final_state)]_vars

\* a run that executed tools was handed back and reported
C15_Witness ==
    /\ pc = "reported"
    /\ toolExecs > 0
    /\ Len(final_state) > InitialLength + 1

\* C16: the model's answer is appended before routing, and routing depends on that message
\* alone: to the tools node iff it carries tool calls, to the end iff it carries none.
C16_Routing ==
    [][(pc = "model_call" /\ pc' \notin {"model_call", "model_unavailable"}) =>
          /\ Len(messages') = Len(messages) + 1
          /\ SubSeq(messages', 1, Len(messages)) = messages
          /\ Last(messages').role = "ai"
          /\ pc' \in {"tools", "done"}
          /\ (pc' = "tools" <=> Len(Last(messages').tool_calls) >= 1)
          /\ (pc' = "done" <=> Len(Last(messages').tool_calls) = 0)]_vars

\* a run was routed to the tools node after its first model call and to the end after its second
C16_Witness ==
    /\ pc = "done"
    /\ modelCalls = 2
    /\ Len(messages[InitialLength + 1].tool_calls) >= 1
    /\ Last(messages).tool_calls = NoCalls

\* C17: for a reported case the returned transcript ends with an assistant message without
\* tool calls, whose content is the printed response; the printed actions are the names of
\* all tool calls of the transcript in order, and the direct-reply text iff the run made a
\* single model call.
C17_ReportedResult ==
    pc \in {"reported", "finished"} =>
        LET total == SumCalls(final_state, Len(final_state))
        IN  /\ Last(final_state).role = "ai"
            /\ Last(final_state).tool_calls = NoCalls
            /\ report.response = Last(final_state).content
            /\ (total = 0 => report.action_taken = <<"None (Direct Reply)">>)
            /\ (total > 0 =>
                  /\ Len(report.action_taken) = total
                  /\ \A n \in 1..Len(final_state) :
                        \A j \in 1..Len(final_state[n].tool_calls) :
                           report.action_taken[SumCalls(final_state, n - 1) + j]
                              = final_state[n].tool_calls[j].name)
            /\ (report.action_taken = <<"None (Direct Reply)">> <=> modelCalls = 1)

\* a case was reported whose transcript holds an assistant message with two tool calls
C17_Witness ==
    /\ pc = "reported"
    /\ \E n \in 1..Len(final_state) : Len(final_state[n].tool_calls) = 2
    /\ Len(report.action_taken) >= 2

\* C18: at every moment the transcript of the current case starts with the system
\* instruction and the user message of that case and holds only messages of that case, so
\* does the state returned for it, and no run changes the environment shared by the runs.
C18_FreshTranscript ==
    /\ [](/\ Len(messages) >= InitialLength
          /\ messages[1] = SystemMessage
          /\ messages[2] = HumanMessage
          /\ \A i \in 1..Len(messages) : messages[i].run = case
          /\ \A i \in 1..Len(final_state) : final_state[i].run = case)
    /\ [][env' = env]_vars

\* the second case was reported, with tool results of its own in its transcript
C18_Witness ==
    /\ case = 2
    /\ pc = "reported"
    /\ Len(final_state) > InitialLength + 1
    /\ printed = <<1, 2>>

\* C19: cases start in file order, each only after the previous one was reported; after a
\* failed run (model unavailable or loop limit) nothing more happens: no later case is
\* started and nothing is printed for the failed case.
C19_SequentialCases ==
    /\ [](/\ printed = [i \in 1..Len(printed) |-> i]
          /\ Len(printed) = (IF pc \in {"reported", "finished"} THEN case ELSE case - 1)
          /\ (pc \in {"loop_limit", "model_unavailable"} => report = NoReport /\ final_state = NoState))
    /\ [][/\ (case' # case => case' = case + 1 /\ pc = "reported" /\ Last(printed) = case)
          /\ (pc \in {"loop_limit", "model_unavailable"} => UNCHANGED vars)]_vars

\* the first case failed while a later case remains, and nothing was printed
C19_Witness ==
    /\ pc \in {"loop_limit", "model_unavailable"}
    /\ case = 1
    /\ case < NumCases
    /\ printed = << >>

====
